---------------------------- MODULE Spec2Model ----------------------------
(***************************************************************************)
(* A model of collectionApi.c: the response accumulator (MemoryStruct and  *)
(* WriteMemoryCallback), the three HTTP operations (testConnection,        *)
(* createCollection, getCollection), the JSON decoding step                *)
(* (parseCollectionResponse) and the demo sequence of main.                *)
(*                                                                         *)
(* C strings are sequences of one-character strings; NUL is the            *)
(* terminator byte.  C index i is TLA+ index i + 1.                        *)
(***************************************************************************)
EXTENDS Integers, Sequences, FiniteSets, TLC

VARIABLES
    mpc,        \* position of main ("lib": the functions are called by an arbitrary caller)
    pc,         \* position inside the operation in progress ("idle": none)
    callLog,    \* operations called so far, in order
    args,       \* arguments of the operation in progress: baseUrl, collectionName
    curl,       \* the CURL easy handle of the operation in progress, with its use counts
    glob,       \* explicit curl_global_init / curl_global_cleanup calls so far
    req,        \* the request handed to curl_easy_perform
    res,        \* CURLcode returned by curl_easy_perform
    status,     \* HTTP status code the server sent ("none": no response)
    retval,     \* the last finished operation and the value it returned
    chunk,      \* the MemoryStruct of getCollection: address, block contents, size
    wire,       \* bytes of the response body the transport has not delivered yet
    body,       \* the response body the server sends
    delivered,  \* chunks the callback accepted, in order
    cb,         \* the last WriteMemoryCallback call
    text,       \* the string handed to parseCollectionResponse
    srcVal,     \* the JSON document text was printed from ("junk": not JSON)
    coll,       \* the Collection returned by parseCollectionResponse
    heap        \* releases and reads of main's heap blocks

vars == <<mpc, pc, callLog, args, curl, glob, req, res, status, retval, chunk,
          wire, body, delivered, cb, text, srcVal, coll, heap>>

-----------------------------------------------------------------------------
(* Bounds of the model *)

\* operations an arbitrary caller invokes in a row
MaxOps == 2
\* longest response body, in bytes
MaxBody == 2
\* most calls of the write callback during one request
MaxChunks == 3
\* length of the over-long collection name
LongName == 250

(* Program constants *)

\* char url[256], char jsonPayload[256]
BufSize == 256

-----------------------------------------------------------------------------
(* Strings *)

NUL == "NUL"
NULL == "NULL"
Unset == <<"unset">>

Min(a, b) == IF a < b THEN a ELSE b

Rep(c, n) == [i \in 1..n |-> c]

\* the C string stored at the start of a byte block: the bytes before the first NUL
CStr(bytes) ==
    LET stops == {i \in 1..Len(bytes) : bytes[i] = NUL}
        n == IF stops = {} THEN Len(bytes)
             ELSE (CHOOSE i \in stops : \A j \in stops : i <= j) - 1
    IN SubSeq(bytes, 1, n)

RECURSIVE Flatten(_)
Flatten(chunks) ==
    IF chunks = <<>> THEN <<>> ELSE Head(chunks) \o Flatten(Tail(chunks))

\* snprintf(buf, n, ...) of a formatted string s: at most n - 1 characters are stored
snprintf(n, s) == SubSeq(s, 1, Min(Len(s), n - 1))

HeartbeatPath == <<"/","h","e","a","r","t","b","e","a","t">>
CollectionsPath == <<"/","a","p","i","/","v","1","/","c","o","l","l","e","c","t","i","o","n","s">>
PayloadHead == <<"{","\"","n","a","m","e","\"",":","\"">>
PayloadTail == <<"\"","}">>
ContentTypeJson == "Content-Type: application/json"

LocalhostUrl == <<"h","t","t","p",":","/","/","l","o","c","a","l","h","o","s","t",":","8","0","0","0">>
TestCollection == <<"T","e","s","t","C","o","l","l","e","c","t","i","o","n">>

\* snprintf(url, sizeof(url), "%s/heartbeat", baseUrl)
HeartbeatUrl(baseUrl) == snprintf(BufSize, baseUrl \o HeartbeatPath)
\* snprintf(url, sizeof(url), "%s/api/v1/collections", baseUrl)
CreateUrl(baseUrl) == snprintf(BufSize, baseUrl \o CollectionsPath)
\* snprintf(jsonPayload, sizeof(jsonPayload), "{\"name\":\"%s\"}", collectionName)
CreatePayload(collectionName) ==
    snprintf(BufSize, PayloadHead \o collectionName \o PayloadTail)
\* snprintf(url, sizeof(url), "%s/api/v1/collections/%s", baseUrl, collectionName)
GetUrl(baseUrl, collectionName) ==
    snprintf(BufSize, baseUrl \o CollectionsPath \o <<"/">> \o collectionName)

-----------------------------------------------------------------------------
(* The response accumulator *)

\* bytes a response body or an uninitialised heap byte can hold
Byte == {NUL, "a"}
\* addresses malloc and realloc can return; NULL when they fail
Addr == {"p1", "p2"}

\* a MemoryStruct: the pointer, the contents of the block it points to, the size
NoChunk == [memory |-> NULL, bytes |-> <<>>, size |-> 0]

\* the block realloc(old, n) returns on success: the old bytes, then n - Len(old)
\* bytes of indeterminate value
realloc(old, n, junk) ==
    [i \in 1..n |-> IF i <= Len(old) THEN old[i] ELSE junk]

\* memcpy(&block[off], src, n)
memcpy(block, off, src, n) ==
    [i \in 1..Len(block) |-> IF i > off /\ i <= off + n THEN src[i - off] ELSE block[i]]

\* the classic slip mem->memory = realloc(mem->memory, ...): the old block is lost
WriteMemoryCallback_Overwrite(mem, contents, size, nmemb, ptr, junk) ==
    LET realsize == size * nmemb IN
    IF ptr = NULL
    THEN [mem |-> [mem EXCEPT !.memory = NULL, !.bytes = <<>>], ret |-> 0]
    ELSE LET grown == realloc(mem.bytes, mem.size + realsize + 1, junk)
             copied == memcpy(grown, mem.size, contents, realsize)
             newsize == mem.size + realsize
         IN [mem |-> [memory |-> ptr,
                      bytes |-> [copied EXCEPT ![newsize + 1] = NUL],
                      size |-> newsize],
             ret |-> realsize]

\* the chunk is copied to the start of the block instead of to memory[size]
WriteMemoryCallback_AtStart(mem, contents, size, nmemb, ptr, junk) ==
    LET realsize == size * nmemb IN
    IF ptr = NULL
    THEN [mem |-> mem, ret |-> 0]
    ELSE LET grown == realloc(mem.bytes, mem.size + realsize + 1, junk)
             copied == memcpy(grown, 0, contents, realsize)
             newsize == mem.size + realsize
         IN [mem |-> [memory |-> ptr,
                      bytes |-> [copied EXCEPT ![newsize + 1] = NUL],
                      size |-> newsize],
             ret |-> realsize]

\* WriteMemoryCallback(contents, size, nmemb, userp); ptr is what realloc returns
\* (NULL: it failed), junk the value of the bytes realloc leaves uninitialised
WriteMemoryCallback(mem, contents, size, nmemb, ptr, junk) ==
    LET realsize == size * nmemb IN
    IF ptr = NULL
    THEN [mem |-> mem, ret |-> 0]
    ELSE LET grown == realloc(mem.bytes, mem.size + realsize + 1, junk)
             copied == memcpy(grown, mem.size, contents, realsize)
             newsize == mem.size + realsize
         IN [mem |-> [memory |-> ptr,
                      bytes |-> [copied EXCEPT ![newsize + 1] = NUL],
                      size |-> newsize],
             ret |-> realsize]

-----------------------------------------------------------------------------
(* The transport library, as the program uses it *)

NoHandle == [state |-> "none", opens |-> 0, performs |-> 0, closes |-> 0, misuse |-> FALSE]
NoReq == [method |-> "none", url |-> <<>>, body |-> <<>>, headers |-> {}]
NoReturn == [op |-> "none", value |-> 0]
NoCb == [calls |-> 0, ret |-> 0, realsize |-> 0, reallocOk |-> TRUE, failures |-> 0]
NoArgs == [baseUrl |-> <<>>, collectionName |-> <<>>]
\* a Collection {NULL, NULL}, and main's record of the one it holds
NoCollection == [id |-> Unset, name |-> Unset]
NoColl == [made |-> FALSE, val |-> NoCollection, frees |-> 0, idFrees |-> 0, nameFrees |-> 0]
NoDoc == [kind |-> "none", val |-> [type |-> "null"]]
NoHeap == [memFrees |-> 0, parses |-> 0, readAfterFree |-> FALSE, parsedEmpty |-> FALSE]

CurlErrors == {"CURLE_COULDNT_CONNECT", "CURLE_OPERATION_TIMEDOUT"}
CurlCodes == {"CURLE_OK"} \cup CurlErrors
HttpStatus == {"200", "404", "500"}

\* curl_easy_init(): a new open handle, or NULL
curl_easy_init(ok) ==
    IF ok THEN [NoHandle EXCEPT !.state = "open", !.opens = 1] ELSE NoHandle

\* curl_easy_perform(h): one request on the handle
curl_easy_perform(h) ==
    [h EXCEPT !.performs = @ + 1, !.misuse = @ \/ h.state # "open"]

\* curl_easy_cleanup(h): the handle is closed
curl_easy_cleanup(h) ==
    [h EXCEPT !.state = "closed", !.closes = @ + 1, !.misuse = @ \/ h.state # "open"]

curl_global_init(g) == [g EXCEPT !.inits = @ + 1]
curl_global_cleanup(g) == [g EXCEPT !.cleanups = @ + 1]

\* all sequences over S of length at most n
SeqsUpTo(S, n) == UNION {[1..k -> S] : k \in 0..n}

\* a call of one of the operations: its locals start afresh
Enter(op, first, a) ==
    /\ pc = "idle"
    /\ pc' = first
    /\ callLog' = Append(callLog, op)
    /\ args' = a
    /\ curl' = NoHandle
    /\ req' = NoReq
    /\ res' = "none"
    /\ status' = "none"
    /\ retval' = NoReturn
    /\ chunk' = NoChunk
    /\ wire' = <<>>
    /\ body' = <<>>
    /\ delivered' = <<>>
    /\ cb' = NoCb

-----------------------------------------------------------------------------
(* testConnection *)

\* lines 158-165 and 181: the URL, curl_easy_init, CURLOPT_URL; return 0 without a handle
TestEasyInit ==
    /\ pc = "t_init"
    /\ \E ok \in BOOLEAN :
        /\ curl' = curl_easy_init(ok)
        /\ IF ok
           THEN /\ req' = [NoReq EXCEPT !.method = "GET", !.url = HeartbeatUrl(args.baseUrl)]
                /\ pc' = "t_perform"
                /\ retval' = retval
           ELSE /\ req' = req
                /\ pc' = "idle"
                /\ retval' = [op |-> "test", value |-> 0]
    /\ UNCHANGED <<mpc, callLog, args, glob, res, status, chunk, wire, body,
                   delivered, cb, text, srcVal, coll, heap>>

\* lines 168-170: the request
TestPerform ==
    /\ pc = "t_perform"
    /\ \E r \in CurlCodes, s \in HttpStatus :
        /\ curl' = curl_easy_perform(curl)
        /\ res' = r
        /\ status' = IF r = "CURLE_OK" THEN s ELSE "none"
        /\ pc' = IF r # "CURLE_OK" THEN "t_fail" ELSE "t_ok"
    /\ UNCHANGED <<mpc, callLog, args, glob, req, retval, chunk, wire, body,
                   delivered, cb, text, srcVal, coll, heap>>

\* the failure branch without its return: control falls through to line 178
TestFail_FallThrough ==
    /\ pc = "t_fail"
    /\ curl' = curl_easy_cleanup(curl)
    /\ pc' = "t_ok"
    /\ UNCHANGED <<mpc, callLog, args, glob, req, res, status, retval, chunk, wire,
                   body, delivered, cb, text, srcVal, coll, heap>>

\* lines 171-173: log, curl_easy_cleanup, return 0
TestFail ==
    /\ pc = "t_fail"
    /\ curl' = curl_easy_cleanup(curl)
    /\ retval' = [op |-> "test", value |-> 0]
    /\ pc' = "idle"
    /\ UNCHANGED <<mpc, callLog, args, glob, req, res, status, chunk, wire, body,
                   delivered, cb, text, srcVal, coll, heap>>

\* lines 176-179: print, curl_easy_cleanup, return 1
TestSuccess ==
    /\ pc = "t_ok"
    /\ curl' = curl_easy_cleanup(curl)
    /\ retval' = [op |-> "test", value |-> 1]
    /\ pc' = "idle"
    /\ UNCHANGED <<mpc, callLog, args, glob, req, res, status, chunk, wire, body,
                   delivered, cb, text, srcVal, coll, heap>>

-----------------------------------------------------------------------------
(* createCollection *)

\* line 197
CreateGlobalInit ==
    /\ pc = "c_ginit"
    /\ glob' = curl_global_init(glob)
    /\ pc' = "c_init"
    /\ UNCHANGED <<mpc, callLog, args, curl, req, res, status, retval, chunk, wire,
                   body, delivered, cb, text, srcVal, coll, heap>>

\* curl_slist_append(list, s), line 212: the list with s added, or NULL when the
\* allocation fails; the result is stored unchecked and NULL is the empty list
curl_slist_append(list, s, ok) == IF ok THEN list \cup {s} ELSE {}

\* lines 198-219: curl_easy_init, success = 0, the URL, the payload, the options
CreateEasyInit ==
    /\ pc = "c_init"
    /\ \E ok \in BOOLEAN, okList \in BOOLEAN :
        /\ curl' = curl_easy_init(ok)
        /\ IF ok
           THEN /\ req' = [method |-> "POST",
                           url |-> CreateUrl(args.baseUrl),
                           body |-> CreatePayload(args.collectionName),
                           headers |-> curl_slist_append({}, ContentTypeJson, okList)]
                /\ pc' = "c_perform"
           ELSE /\ req' = req
                /\ pc' = "c_gcleanup"
    /\ retval' = [op |-> "none", value |-> 0]
    /\ UNCHANGED <<mpc, callLog, args, glob, res, status, chunk, wire, body,
                   delivered, cb, text, srcVal, coll, heap>>

\* success is set whatever curl_easy_perform returned
CreatePerform_AlwaysSuccess ==
    /\ pc = "c_perform"
    /\ \E r \in CurlCodes, s \in HttpStatus :
        /\ curl' = curl_easy_perform(curl)
        /\ res' = r
        /\ status' = IF r = "CURLE_OK" THEN s ELSE "none"
        /\ retval' = [op |-> "none", value |-> 1]
    /\ pc' = "c_cleanup"
    /\ UNCHANGED <<mpc, callLog, args, glob, req, chunk, wire, body,
                   delivered, cb, text, srcVal, coll, heap>>

\* lines 221-226: the request; success = 1 when it returned CURLE_OK
CreatePerform ==
    /\ pc = "c_perform"
    /\ \E r \in CurlCodes, s \in HttpStatus :
        /\ curl' = curl_easy_perform(curl)
        /\ res' = r
        /\ status' = IF r = "CURLE_OK" THEN s ELSE "none"
        /\ retval' = [op |-> "none", value |-> IF r = "CURLE_OK" THEN 1 ELSE 0]
    /\ pc' = "c_cleanup"
    /\ UNCHANGED <<mpc, callLog, args, glob, req, chunk, wire, body,
                   delivered, cb, text, srcVal, coll, heap>>

\* lines 228-229: curl_slist_free_all, curl_easy_cleanup
CreateCleanup ==
    /\ pc = "c_cleanup"
    /\ curl' = curl_easy_cleanup(curl)
    /\ pc' = "c_gcleanup"
    /\ UNCHANGED <<mpc, callLog, args, glob, req, res, status, retval, chunk, wire,
                   body, delivered, cb, text, srcVal, coll, heap>>

\* lines 232-234: curl_global_cleanup, return success
CreateGlobalCleanup ==
    /\ pc = "c_gcleanup"
    /\ glob' = curl_global_cleanup(glob)
    /\ retval' = [op |-> "create", value |-> retval.value]
    /\ pc' = "idle"
    /\ UNCHANGED <<mpc, callLog, args, curl, req, res, status, chunk, wire, body,
                   delivered, cb, text, srcVal, coll, heap>>

-----------------------------------------------------------------------------
(* The JSON decoder (cJSON), as parseCollectionResponse uses it.  A JSON   *)
(* item is [type, str, items]: str the text of a string or number, items   *)
(* the members of an object or array, each [key, val] (key Unset in an     *)
(* array).  Texts hold no \u escape and no byte-order mark.                *)

JNull == [type |-> "null", str |-> <<>>, items |-> <<>>]
JTrue == [type |-> "true", str |-> <<>>, items |-> <<>>]
JFalse == [type |-> "false", str |-> <<>>, items |-> <<>>]
JString(s) == [type |-> "string", str |-> s, items |-> <<>>]
JNumber(s) == [type |-> "number", str |-> s, items |-> <<>>]
JArray(m) == [type |-> "array", str |-> <<>>, items |-> m]
JObject(m) == [type |-> "object", str |-> <<>>, items |-> m]

ParseFail == [ok |-> FALSE, val |-> JNull, pos |-> 0]
Parsed(v, p) == [ok |-> TRUE, val |-> v, pos |-> p]

\* the character at offset i of a C string: its terminator at and after the end
At(t, i) == IF i >= 1 /\ i <= Len(t) THEN t[i] ELSE NUL

IsSpace(c) == c \in {" ", "\t", "\n", "\r"}
IsDigit(c) == c \in {"0", "1", "2", "3", "4", "5", "6", "7", "8", "9"}

\* F applied to the value of x, x evaluated once
Let1(x, F(_)) == CHOOSE r \in {F(y) : y \in {x}} : TRUE

\* buffer_skip_whitespace
RECURSIVE buffer_skip_whitespace(_, _)
buffer_skip_whitespace(t, i) ==
    Let1(i, LAMBDA p :
        IF p <= Len(t) /\ IsSpace(t[p]) THEN buffer_skip_whitespace(t, p + 1) ELSE p)

\* can_read(n) and strncmp against a literal
StartsWith(t, i, lit) ==
    /\ i + Len(lit) - 1 <= Len(t)
    /\ SubSeq(t, i, i + Len(lit) - 1) = lit

\* the character an escape sequence \c stands for; "none" when there is none
Unescape(c) ==
    CASE c = "\"" -> "\""
      [] c = "\\" -> "\\"
      [] c = "/" -> "/"
      [] c = "n" -> "\n"
      [] c = "t" -> "\t"
      [] c = "r" -> "\r"
      [] c = "f" -> "\f"
      [] c = "b" -> "BS"
      [] OTHER -> "none"

\* parse_string from the character after the opening quote
RECURSIVE ScanString(_, _, _)
ScanString(t, j, acc) ==
    Let1(<<j, acc>>, LAMBDA s :
        IF s[1] > Len(t) THEN ParseFail
        ELSE IF t[s[1]] = "\"" THEN Parsed(JString(s[2]), s[1] + 1)
        ELSE IF t[s[1]] = "\\"
             THEN IF s[1] + 1 > Len(t) \/ Unescape(t[s[1] + 1]) = "none" THEN ParseFail
                  ELSE ScanString(t, s[1] + 2, Append(s[2], Unescape(t[s[1] + 1])))
        ELSE ScanString(t, s[1] + 1, Append(s[2], t[s[1]])))

parse_string(t, i) ==
    Let1(i, LAMBDA p :
        IF At(t, p) # "\"" THEN ParseFail ELSE ScanString(t, p + 1, <<>>))

RECURSIVE DigitsEnd(_, _)
DigitsEnd(t, i) ==
    Let1(i, LAMBDA p : IF IsDigit(At(t, p)) THEN DigitsEnd(t, p + 1) ELSE p)

\* the end of the exponent that starts at offset d, d when there is none
ExponentEnd(t, d) ==
    Let1(IF At(t, d + 1) \in {"+", "-"} THEN d + 2 ELSE d + 1, LAMBDA es :
    Let1(DigitsEnd(t, es), LAMBDA ed :
        IF At(t, d) \in {"e", "E"} /\ ed > es THEN ed ELSE d))

\* the offset strtod stops at, i when it converts nothing
strtod(t, i) ==
    Let1(IF At(t, i) \in {"+", "-"} THEN i + 1 ELSE i, LAMBDA s :
    Let1(DigitsEnd(t, s), LAMBDA d1 :
    Let1(IF At(t, d1) = "." THEN DigitsEnd(t, d1 + 1) ELSE d1, LAMBDA d2 :
        IF (d1 - s) + (IF At(t, d1) = "." THEN d2 - d1 - 1 ELSE 0) = 0 THEN i
        ELSE ExponentEnd(t, d2))))

\* parse_number
parse_number(t, i) ==
    Let1(<<i, strtod(t, i)>>, LAMBDA n :
        IF n[2] = n[1] THEN ParseFail
        ELSE Parsed(JNumber(SubSeq(t, n[1], n[2] - 1)), n[2]))

RECURSIVE parse_value(_, _)
RECURSIVE ArrayItems(_, _, _)
RECURSIVE ObjectItems(_, _, _)

\* the loop of parse_array: i is the offset of '[' or of a ','
ArrayItems(t, i, acc) ==
    Let1(parse_value(t, buffer_skip_whitespace(t, i + 1)), LAMBDA v :
        IF ~v.ok THEN ParseFail
        ELSE Let1(<<buffer_skip_whitespace(t, v.pos),
                    Append(acc, [key |-> Unset, val |-> v.val])>>, LAMBDA n :
            IF At(t, n[1]) = "," THEN ArrayItems(t, n[1], n[2])
            ELSE IF At(t, n[1]) = "]" THEN Parsed(JArray(n[2]), n[1] + 1)
            ELSE ParseFail))

parse_array(t, i) ==
    Let1(<<i, buffer_skip_whitespace(t, i + 1)>>, LAMBDA n :
        IF At(t, n[1]) # "[" THEN ParseFail
        ELSE IF At(t, n[2]) = "]" THEN Parsed(JArray(<<>>), n[2] + 1)
        ELSE IF n[2] > Len(t) THEN ParseFail
        ELSE ArrayItems(t, n[1], <<>>))

\* the loop of parse_object: i is the offset of '{' or of a ','
ObjectItems(t, i, acc) ==
    Let1(parse_string(t, buffer_skip_whitespace(t, i + 1)), LAMBDA k :
        IF ~k.ok THEN ParseFail
        ELSE Let1(buffer_skip_whitespace(t, k.pos), LAMBDA c :
            IF At(t, c) # ":" THEN ParseFail
            ELSE Let1(parse_value(t, buffer_skip_whitespace(t, c + 1)), LAMBDA v :
                IF ~v.ok THEN ParseFail
                ELSE Let1(<<buffer_skip_whitespace(t, v.pos),
                            Append(acc, [key |-> k.val.str, val |-> v.val])>>, LAMBDA n :
                    IF At(t, n[1]) = "," THEN ObjectItems(t, n[1], n[2])
                    ELSE IF At(t, n[1]) = "}" THEN Parsed(JObject(n[2]), n[1] + 1)
                    ELSE ParseFail))))

parse_object(t, i) ==
    Let1(<<i, buffer_skip_whitespace(t, i + 1)>>, LAMBDA n :
        IF At(t, n[1]) # "{" THEN ParseFail
        ELSE IF At(t, n[2]) = "}" THEN Parsed(JObject(<<>>), n[2] + 1)
        ELSE IF n[2] > Len(t) THEN ParseFail
        ELSE ObjectItems(t, n[1], <<>>))

parse_value(t, i) ==
    Let1(i, LAMBDA p :
        IF StartsWith(t, p, <<"n","u","l","l">>) THEN Parsed(JNull, p + 4)
        ELSE IF StartsWith(t, p, <<"f","a","l","s","e">>) THEN Parsed(JFalse, p + 5)
        ELSE IF StartsWith(t, p, <<"t","r","u","e">>) THEN Parsed(JTrue, p + 4)
        ELSE IF At(t, p) = "\"" THEN parse_string(t, p)
        ELSE IF At(t, p) = "-" \/ IsDigit(At(t, p)) THEN parse_number(t, p)
        ELSE IF At(t, p) = "[" THEN parse_array(t, p)
        ELSE IF At(t, p) = "{" THEN parse_object(t, p)
        ELSE ParseFail)

\* cJSON_Parse(value): the first JSON value of the text; what follows it is not read
cJSON_Parse(value) == parse_value(value, buffer_skip_whitespace(value, 1))

\* cJSON_GetObjectItemCaseSensitive over the children of an item
RECURSIVE get_object_item(_, _)
get_object_item(items, name) ==
    IF items = <<>> \/ Head(items).key = Unset THEN [found |-> FALSE, val |-> JNull]
    ELSE IF Head(items).key = name THEN [found |-> TRUE, val |-> Head(items).val]
    ELSE get_object_item(Tail(items), name)

cJSON_GetObjectItemCaseSensitive(object, name) == get_object_item(object.items, name)

\* cJSON_IsString(item), item NULL when it was not found
cJSON_IsString(item) == item.found /\ item.val.type = "string"

-----------------------------------------------------------------------------
(* parseCollectionResponse and freeCollection *)

\* strdup(s), lines 61 and 65: a copy of s, or NULL when the allocation fails;
\* the result is stored unchecked, so a failed copy leaves the field NULL
strdup(s, ok) == IF ok THEN s ELSE Unset

\* parseCollectionResponse(response), lines 45-70; f[1] is the item id, f[2] name,
\* okId and okName tell whether the strdup of line 61 and of line 65 succeeds
parseCollectionResponse(response, okId, okName) ==
    Let1(cJSON_Parse(response), LAMBDA json :
        IF ~json.ok
        THEN NoCollection
        ELSE Let1(<<cJSON_GetObjectItemCaseSensitive(json.val, <<"i","d">>),
                    cJSON_GetObjectItemCaseSensitive(json.val, <<"n","a","m","e">>)>>,
                  LAMBDA f :
            [id |-> IF cJSON_IsString(f[1]) THEN strdup(f[1].val.str, okId) ELSE Unset,
             name |-> IF cJSON_IsString(f[2]) THEN strdup(f[2].val.str, okName)
                      ELSE Unset]))

\* freeCollection(collection), lines 77-80: each field that is set is freed
freeCollection(c) ==
    [c EXCEPT !.frees = @ + 1,
              !.idFrees = IF c.val.id # Unset THEN @ + 1 ELSE @,
              !.nameFrees = IF c.val.name # Unset THEN @ + 1 ELSE @]

-----------------------------------------------------------------------------
(* JSON documents and their texts, the inputs of parseCollectionResponse *)

\* most members of a top-level object
MaxMembers == 2

IdKey == <<"i","d">>
NameKey == <<"n","a","m","e">>
Keys == {IdKey, NameKey, <<"I","d">>, <<"N","A","M","E">>}

Scalars ==
    {JString(<<"a","b","c","1","2","3">>), JString(<<"d","e","m","o">>), JString(<<>>),
     JString(<<"\"","}">>), JNumber(<<"1","2","3">>), JNull, JTrue}

Nested ==
    {JObject(<<[key |-> IdKey, val |-> JString(<<"i","n">>)]>>),
     JArray(<<[key |-> Unset, val |-> JString(IdKey)]>>)}

\* sequences over S without repeated keys, of length at most n
MemberLists(n) ==
    {m \in SeqsUpTo([key : Keys, val : Scalars \cup Nested], n) :
        \A i, j \in 1..Len(m) : m[i].key = m[j].key => i = j}

Docs ==
    {JObject(m) : m \in MemberLists(MaxMembers)}
        \cup Scalars
        \cup {JArray(<<[key |-> Unset, val |-> d]>>) : d \in Nested}

\* a string between quotes, with \ before each quote and backslash
RECURSIVE Quoted(_)
Quoted(str) ==
    IF str = <<>> THEN <<>>
    ELSE (IF Head(str) \in {"\"", "\\"} THEN <<"\\", Head(str)>> ELSE <<Head(str)>>)
             \o Quoted(Tail(str))

\* the text of a JSON document, sp the white space written between its tokens
RECURSIVE PrintJson(_, _)
RECURSIVE PrintItems(_, _, _)
PrintItems(items, sp, isObject) ==
    IF items = <<>> THEN <<>>
    ELSE (IF isObject
          THEN <<"\"">> \o Quoted(Head(items).key) \o <<"\"">> \o sp \o <<":">> \o sp
          ELSE <<>>)
         \o PrintJson(Head(items).val, sp)
         \o (IF Len(items) > 1 THEN sp \o <<",">> \o sp ELSE <<>>)
         \o PrintItems(Tail(items), sp, isObject)

PrintJson(v, sp) ==
    CASE v.type = "null" -> <<"n","u","l","l">>
      [] v.type = "true" -> <<"t","r","u","e">>
      [] v.type = "false" -> <<"f","a","l","s","e">>
      [] v.type = "number" -> v.str
      [] v.type = "string" -> <<"\"">> \o Quoted(v.str) \o <<"\"">>
      [] v.type = "array" -> <<"[">> \o sp \o PrintItems(v.items, sp, FALSE) \o sp \o <<"]">>
      [] v.type = "object" -> <<"{">> \o sp \o PrintItems(v.items, sp, TRUE) \o sp \o <<"}">>

Spacings == {<<>>, <<" ">>}
\* what follows the document in the body
Trailers == {<<>>, <<" ","x">>}

\* bodies that are not JSON
Junk ==
    {<<>>,
     <<"n","o","t"," ","j","s","o","n">>,
     <<"{","\"","i","d","\"",":","\"","a","\"">>,
     <<"{","\"","i","d","\""," ","\"","a","\"","}">>,
     <<"{","i","d",":","\"","a","\"","}">>,
     <<"{","\"","i","d","\"",":","\"","a","\"",",","}">>,
     <<"{","\"","i","d","\"",":","\"","a","\"",",","\"","n","a","m","e","\"",":","}">>,
     <<"{","\"","i","d","\"",":","\"","a","}">>,
     <<"{","\"","i","d","\"",":","-","}">>,
     <<"<","h","t","m","l",">">>}

\* the inputs: a document with its text, or a junk text
ParseInputs ==
    {[kind |-> "doc", val |-> d, text |-> PrintJson(d, sp) \o tr] :
        d \in Docs, sp \in Spacings, tr \in Trailers}
    \cup {[kind |-> "junk", val |-> JNull, text |-> t] : t \in Junk}

-----------------------------------------------------------------------------
(* getCollection *)

\* response bodies the server of the demo sends: the collection, the collection
\* without its id, an error page, a body holding a zero byte, nothing
MainBodies ==
    {PrintJson(JObject(<<[key |-> IdKey, val |-> JString(<<"1">>)],
                         [key |-> NameKey, val |-> JString(TestCollection)]>>), <<>>),
     PrintJson(JObject(<<[key |-> NameKey, val |-> JString(TestCollection)]>>), <<>>),
     <<"<","h","t","m","l",">">>,
     <<"{", NUL, "}">>,
     <<>>}

\* response bodies a server can send
Bodies == IF mpc = "lib" THEN SeqsUpTo(Byte, MaxBody) ELSE MainBodies

\* lengths of the next chunk the transport hands to the callback
ChunkLens(w) == {k \in 0..Len(w) : k <= MaxBody \/ k = Len(w)}

\* lines 119-122: chunk.memory = malloc(1), whose byte is not initialised; chunk.size = 0
GetMalloc ==
    /\ pc = "g_malloc"
    /\ \E p \in Addr \cup {NULL}, junk \in Byte :
        chunk' = [memory |-> p, bytes |-> IF p = NULL THEN <<>> ELSE <<junk>>, size |-> 0]
    /\ pc' = "g_ginit"
    /\ UNCHANGED <<mpc, callLog, args, curl, glob, req, res, status, retval, wire,
                   body, delivered, cb, text, srcVal, coll, heap>>

\* line 124
GetGlobalInit ==
    /\ pc = "g_ginit"
    /\ glob' = curl_global_init(glob)
    /\ pc' = "g_init"
    /\ UNCHANGED <<mpc, callLog, args, curl, req, res, status, retval, chunk, wire,
                   body, delivered, cb, text, srcVal, coll, heap>>

\* lines 125-133: curl_easy_init, the URL, the write callback and its accumulator
GetEasyInit ==
    /\ pc = "g_init"
    /\ \E ok \in BOOLEAN :
        /\ curl' = curl_easy_init(ok)
        /\ IF ok
           THEN /\ req' = [NoReq EXCEPT !.method = "GET",
                                        !.url = GetUrl(args.baseUrl, args.collectionName)]
                /\ pc' = "g_perform"
           ELSE /\ req' = req
                /\ pc' = "g_gcleanup"
    /\ UNCHANGED <<mpc, callLog, args, glob, res, status, retval, chunk, wire, body,
                   delivered, cb, text, srcVal, coll, heap>>

\* line 135, curl_easy_perform is entered: the request goes out, a server answers
GetSend ==
    /\ pc = "g_perform"
    /\ curl' = curl_easy_perform(curl)
    /\ \E b \in Bodies :
        /\ body' = b
        /\ wire' = b
    /\ pc' = "g_recv"
    /\ UNCHANGED <<mpc, callLog, args, glob, req, res, status, retval, chunk,
                   delivered, cb, text, srcVal, coll, heap>>

\* line 135, inside curl_easy_perform: the transport hands the next k bytes to
\* WriteMemoryCallback (lines 91-107); a return other than k ends the transfer
\* with CURLE_WRITE_ERROR
GetRecv ==
    /\ pc = "g_recv"
    /\ cb.calls < MaxChunks
    /\ \E k \in ChunkLens(wire), ptr \in Addr \cup {NULL}, junk \in Byte :
        LET contents == SubSeq(wire, 1, k)
            out == WriteMemoryCallback(chunk, contents, 1, k, ptr, junk)
        IN /\ chunk' = out.mem
           /\ cb' = [calls |-> cb.calls + 1, ret |-> out.ret, realsize |-> k,
                     reallocOk |-> ptr # NULL,
                     failures |-> cb.failures + (IF ptr = NULL THEN 1 ELSE 0)]
           /\ IF out.ret = k
              THEN /\ wire' = SubSeq(wire, k + 1, Len(wire))
                   /\ delivered' = Append(delivered, contents)
                   /\ res' = res
                   /\ pc' = "g_recv"
              ELSE /\ wire' = wire
                   /\ delivered' = delivered
                   /\ res' = "CURLE_WRITE_ERROR"
                   /\ pc' = "g_cleanup"
    /\ UNCHANGED <<mpc, callLog, args, curl, glob, req, status, retval, body,
                   text, srcVal, coll, heap>>

\* line 135, curl_easy_perform returns: CURLE_OK once the whole body was handed
\* over, a transport error at any time
GetPerformEnd ==
    /\ pc = "g_recv"
    /\ \E r \in CurlCodes, s \in HttpStatus :
        /\ r = "CURLE_OK" => wire = <<>>
        /\ res' = r
        /\ status' = IF r = "CURLE_OK" THEN s ELSE "none"
    /\ pc' = "g_cleanup"
    /\ UNCHANGED <<mpc, callLog, args, curl, glob, req, retval, chunk, wire, body,
                   delivered, cb, text, srcVal, coll, heap>>

\* lines 136-140: log a failure, curl_easy_cleanup
GetCleanup ==
    /\ pc = "g_cleanup"
    /\ curl' = curl_easy_cleanup(curl)
    /\ pc' = "g_gcleanup"
    /\ UNCHANGED <<mpc, callLog, args, glob, req, res, status, retval, chunk, wire,
                   body, delivered, cb, text, srcVal, coll, heap>>

\* lines 143-144: curl_global_cleanup, return chunk
GetGlobalCleanup ==
    /\ pc = "g_gcleanup"
    /\ glob' = curl_global_cleanup(glob)
    /\ retval' = [op |-> "get", value |-> chunk.size]
    /\ pc' = "idle"
    /\ UNCHANGED <<mpc, callLog, args, curl, req, res, status, chunk, wire, body,
                   delivered, cb, text, srcVal, coll, heap>>

-----------------------------------------------------------------------------
(* A caller of the library *)

BaseUrls == {LocalhostUrl}
Names == {TestCollection, Rep("x", LongName)}

\* testConnection(baseUrl)
LibCallTest ==
    /\ mpc = "lib"
    /\ Len(callLog) < MaxOps
    /\ \E b \in BaseUrls : Enter("test", "t_init", [NoArgs EXCEPT !.baseUrl = b])
    /\ text' = <<>>
    /\ srcVal' = NoDoc
    /\ coll' = NoColl
    /\ UNCHANGED <<mpc, glob, heap>>

\* createCollection(baseUrl, collectionName)
LibCallCreate ==
    /\ mpc = "lib"
    /\ Len(callLog) < MaxOps
    /\ \E b \in BaseUrls, n \in Names :
        Enter("create", "c_ginit", [baseUrl |-> b, collectionName |-> n])
    /\ text' = <<>>
    /\ srcVal' = NoDoc
    /\ coll' = NoColl
    /\ UNCHANGED <<mpc, glob, heap>>

\* getCollection(baseUrl, collectionName)
LibCallGet ==
    /\ mpc = "lib"
    /\ Len(callLog) < MaxOps
    /\ \E b \in BaseUrls, n \in Names :
        Enter("get", "g_malloc", [baseUrl |-> b, collectionName |-> n])
    /\ text' = <<>>
    /\ srcVal' = NoDoc
    /\ coll' = NoColl
    /\ UNCHANGED <<mpc, glob, heap>>

\* parseCollectionResponse(response)
CallParse ==
    /\ mpc = "parse"
    /\ callLog = <<>>
    /\ \E in \in ParseInputs, okId \in BOOLEAN, okName \in BOOLEAN :
        /\ text' = in.text
        /\ srcVal' = [kind |-> in.kind, val |-> in.val]
        /\ coll' = [NoColl EXCEPT !.made = TRUE,
                                  !.val = parseCollectionResponse(in.text, okId, okName)]
    /\ Enter("parse", "idle", NoArgs)
    /\ UNCHANGED <<mpc, glob, heap>>

\* freeCollection(&collection) on the Collection the last call returned
CallFree ==
    /\ mpc = "parse"
    /\ pc = "idle"
    /\ coll.made
    /\ coll.frees = 0
    /\ coll' = freeCollection(coll)
    /\ UNCHANGED <<mpc, pc, callLog, args, curl, glob, req, res, status, retval, chunk,
                   wire, body, delivered, cb, text, srcVal, heap>>

TestSteps == TestEasyInit \/ TestPerform \/ TestFail \/ TestSuccess
CreateSteps ==
    CreateGlobalInit \/ CreateEasyInit \/ CreatePerform \/ CreateCleanup
        \/ CreateGlobalCleanup
GetSteps ==
    GetMalloc \/ GetGlobalInit \/ GetEasyInit \/ GetSend \/ GetRecv \/ GetPerformEnd
        \/ GetCleanup \/ GetGlobalCleanup

\* nothing has been called yet
Fresh ==
    /\ pc = "idle"
    /\ callLog = <<>>
    /\ args = NoArgs
    /\ curl = NoHandle
    /\ glob = [inits |-> 0, cleanups |-> 0]
    /\ req = NoReq
    /\ res = "none"
    /\ status = "none"
    /\ retval = NoReturn
    /\ chunk = NoChunk
    /\ wire = <<>>
    /\ body = <<>>
    /\ delivered = <<>>
    /\ cb = NoCb
    /\ text = <<>>
    /\ srcVal = NoDoc
    /\ coll = NoColl
    /\ heap = NoHeap

Init == mpc = "lib" /\ Fresh

Next ==
    \/ LibCallTest
    \/ LibCallCreate
    \/ LibCallGet
    \/ TestSteps
    \/ CreateSteps
    \/ GetSteps

Spec == Init /\ [][Next]_vars

-----------------------------------------------------------------------------
(* The decoding step on its own: a caller hands a body to                  *)
(* parseCollectionResponse and releases the Collection it gets back        *)

ParseInit == mpc = "parse" /\ Fresh

ParseNext == CallParse \/ CallFree

ParseSpec == ParseInit /\ [][ParseNext]_vars

-----------------------------------------------------------------------------
(* main *)

MainArgs == [baseUrl |-> LocalhostUrl, collectionName |-> TestCollection]

\* lines 239-242: testConnection(baseUrl), its result ignored
MainCallTest ==
    /\ mpc = "m_test"
    /\ Enter("test", "t_init", [NoArgs EXCEPT !.baseUrl = LocalhostUrl])
    /\ mpc' = "m_create"
    /\ UNCHANGED <<glob, text, srcVal, coll, heap>>

\* lines 243-247: createCollection(baseUrl, collectionName)
MainCallCreate ==
    /\ mpc = "m_create"
    /\ Enter("create", "c_ginit", MainArgs)
    /\ mpc' = "m_get"
    /\ UNCHANGED <<glob, text, srcVal, coll, heap>>

\* lines 248-255: print the result of createCollection, then getCollection
MainCallGet ==
    /\ mpc = "m_get"
    /\ Enter("get", "g_malloc", MainArgs)
    /\ mpc' = "m_check"
    /\ UNCHANGED <<glob, text, srcVal, coll, heap>>

\* the size test is dropped: the response is always parsed
MainCheck_NoSizeTest ==
    /\ mpc = "m_check"
    /\ pc = "idle"
    /\ mpc' = "m_parse"
    /\ UNCHANGED <<pc, callLog, args, curl, glob, req, res, status, retval, chunk,
                   wire, body, delivered, cb, text, srcVal, coll, heap>>

\* lines 256-257 and 264-266: if (response.size > 0), else print not found
MainCheck ==
    /\ mpc = "m_check"
    /\ pc = "idle"
    /\ mpc' = IF chunk.size > 0 THEN "m_parse" ELSE "m_free"
    /\ UNCHANGED <<pc, callLog, args, curl, glob, req, res, status, retval, chunk,
                   wire, body, delivered, cb, text, srcVal, coll, heap>>

\* lines 258-262: parseCollectionResponse(response.memory), print id and name
MainParse ==
    /\ mpc = "m_parse"
    /\ text' = CStr(chunk.bytes)
    /\ \E okId \in BOOLEAN, okName \in BOOLEAN :
        coll' = [NoColl EXCEPT !.made = TRUE,
                               !.val = parseCollectionResponse(text', okId, okName)]
    /\ heap' = [heap EXCEPT !.parses = @ + 1,
                            !.readAfterFree = @ \/ heap.memFrees > 0,
                            !.parsedEmpty = @ \/ chunk.size = 0]
    /\ mpc' = "m_freecoll"
    /\ UNCHANGED <<pc, callLog, args, curl, glob, req, res, status, retval, chunk,
                   wire, body, delivered, cb, srcVal>>

\* line 263: freeCollection(&collection)
MainFreeCollection ==
    /\ mpc = "m_freecoll"
    /\ coll' = freeCollection(coll)
    /\ mpc' = "m_free"
    /\ UNCHANGED <<pc, callLog, args, curl, glob, req, res, status, retval, chunk,
                   wire, body, delivered, cb, text, srcVal, heap>>

\* lines 268-269: free(response.memory), return 0
MainFree ==
    /\ mpc = "m_free"
    /\ heap' = [heap EXCEPT !.memFrees = @ + 1]
    /\ mpc' = "done"
    /\ UNCHANGED <<pc, callLog, args, curl, glob, req, res, status, retval, chunk,
                   wire, body, delivered, cb, text, srcVal, coll>>

MainInit == mpc = "m_test" /\ Fresh

MainNext ==
    \/ MainCallTest
    \/ MainCallCreate
    \/ MainCallGet
    \/ MainCheck
    \/ MainParse
    \/ MainFreeCollection
    \/ MainFree
    \/ TestSteps
    \/ CreateSteps
    \/ GetSteps

\* the program is sequential: a step that can be taken is taken, and every
\* request ends
MainSpec == MainInit /\ [][MainNext]_vars /\ WF_vars(MainNext)

-----------------------------------------------------------------------------
(* Properties *)

\* the operation called last
LastOp == IF callLog = <<>> THEN "none" ELSE callLog[Len(callLog)]
\* an accumulator exists: getCollection has run past its malloc
AccLive == LastOp = "get" /\ pc # "g_malloc"
\* the operation called last has returned
Returned(op) == LastOp = op /\ pc = "idle"
\* the bytes memory[0 .. size-1]
Content == SubSeq(chunk.bytes, 1, Min(chunk.size, Len(chunk.bytes)))
\* memory[size] exists and is the terminator
Terminated == Len(chunk.bytes) > chunk.size /\ chunk.bytes[chunk.size + 1] = NUL

RECURSIVE SumLen(_)
SumLen(chunks) == IF chunks = <<>> THEN 0 ELSE Len(Head(chunks)) + SumLen(Tail(chunks))

IsPrefix(a, b) == Len(a) <= Len(b) /\ a = SubSeq(b, 1, Len(a))

\* C1: once WriteMemoryCallback has been called on each chunk in order, every call
\* having succeeded, memory[0..size-1] is the concatenation of the chunks, size is
\* the sum of their lengths and memory[size] is 0; when the whole body has been
\* handed over the content is the body, however it was cut into chunks.
C1_AppendConcatenates ==
    (LastOp = "get" /\ cb.calls >= 1 /\ cb.failures = 0) =>
        /\ Len(delivered) = cb.calls
        /\ Content = Flatten(delivered)
        /\ chunk.size = SumLen(delivered)
        /\ Terminated
        /\ wire = <<>> => Content = body

\* three successful calls, one of them with an empty chunk, of a body with a zero
\* byte in it
C1_Witness ==
    /\ LastOp = "get"
    /\ cb.calls = 3
    /\ cb.failures = 0
    /\ delivered = << <<"a">>, <<>>, <<NUL>> >>
    /\ wire = <<>>
    /\ chunk.size = 2

\* C2, as claimed: in every state of an accumulator's lifecycle the buffer is
\* non-null and memory[size] is 0 (a fresh accumulator has memory[0] = 0), and
\* size never decreases from one state to the next.
C2_TerminatedAndGrowing ==
    /\ [](AccLive => (chunk.memory # NULL /\ Terminated))
    /\ [][(AccLive /\ AccLive') => chunk'.size >= chunk.size]_vars

\* C3: a call of WriteMemoryCallback whose realloc fails returns 0 and leaves the
\* pointer, the accumulated bytes and the size as they were.
C3_FailedAppendKeepsBuffer ==
    [][(cb'.calls = cb.calls + 1 /\ ~cb'.reallocOk) => (cb'.ret = 0 /\ chunk' = chunk)]_vars

\* a non-empty chunk is refused after a byte was accumulated, and the
\* transfer has failed
C3_Witness ==
    /\ LastOp = "get"
    /\ cb.calls = 2
    /\ ~cb.reallocOk
    /\ cb.realsize > 0
    /\ cb.ret = 0
    /\ chunk.size = 1
    /\ Content = <<"a">>
    /\ chunk.memory # NULL
    /\ res = "CURLE_WRITE_ERROR"

\* C4, as claimed: getCollection returns a non-null buffer, and when the request
\* failed the accumulator has size 0 and an empty, terminated buffer.
C4_EmptyOnFailure ==
    Returned("get") =>
        /\ chunk.memory # NULL
        /\ res # "CURLE_OK" => (chunk.size = 0 /\ Terminated)

\* C5: testConnection and createCollection return 1 exactly when
\* curl_easy_perform returned CURLE_OK, whatever the HTTP status, and 0 when
\* there is no handle.
C5_ReturnsTransportResult ==
    (Returned("test") \/ Returned("create")) =>
        /\ retval.op = LastOp
        /\ retval.value \in {0, 1}
        /\ retval.value = 1 <=> res = "CURLE_OK"
        /\ curl.opens = 0 => retval.value = 0

\* createCollection returned 1 although the server answered 500
C5_Witness ==
    /\ Returned("create")
    /\ retval.value = 1
    /\ res = "CURLE_OK"
    /\ status = "500"

\* the first member of an object with the key, when its value is a string
ExpectedField(d, key) ==
    LET hits == {i \in 1..Len(d.items) : d.items[i].key = key}
    IN IF d.type = "object" /\ hits # {}
          /\ d.items[CHOOSE i \in hits : TRUE].val.type = "string"
       THEN d.items[CHOOSE i \in hits : TRUE].val.str
       ELSE Unset

\* C6: for a body that is the text of a JSON document, id is the value of the
\* top-level key "id" when that key is there with a string value and unset
\* otherwise, and the same for name, each whatever the other is; for a body that
\* is not JSON both are unset.
C6_FieldsByTypeAndPresence ==
    (mpc = "parse" /\ coll.made) =>
        /\ srcVal.kind = "doc" =>
            /\ coll.val.id = ExpectedField(srcVal.val, IdKey)
            /\ coll.val.name = ExpectedField(srcVal.val, NameKey)
        /\ srcVal.kind = "junk" => coll.val = NoCollection

\* what is left of C6 when a strdup may fail: a field that is set is the value
\* of its key, a string, and a body that is not JSON leaves both unset
FieldsSetOnlyFromStrings ==
    (mpc = "parse" /\ coll.made) =>
        /\ srcVal.kind = "doc" =>
            /\ coll.val.id \in {ExpectedField(srcVal.val, IdKey), Unset}
            /\ coll.val.name \in {ExpectedField(srcVal.val, NameKey), Unset}
        /\ srcVal.kind = "junk" => coll.val = NoCollection

\* C7: an operation never closes a handle twice nor uses a closed one, and when it
\* returns after a request (the transport succeeded or failed) it has opened one
\* handle, performed one request on it and closed it once; without a handle it
\* performed nothing.
C7_OneHandleOneRequest ==
    /\ ~curl.misuse
    /\ curl.opens <= 1
    /\ curl.performs <= curl.opens
    /\ curl.closes <= curl.opens
    /\ (Returned("test") \/ Returned("create") \/ Returned("get")) =>
        /\ curl.state # "open"
        /\ curl.performs = curl.opens
        /\ curl.closes = curl.opens
        /\ res # "none" => curl.opens = 1

\* testConnection returned after a transport error, its handle closed once
C7_Witness ==
    /\ Returned("test")
    /\ res = "CURLE_COULDNT_CONNECT"
    /\ curl.state = "closed"
    /\ curl.performs = 1
    /\ curl.closes = 1

\* C8, as claimed: a handle is open only between an explicit global init and the
\* global cleanup that follows it, and when no operation is in progress there
\* were as many global inits as global cleanups.
C8_GlobalBracket ==
    /\ curl.state = "open" => glob.inits > glob.cleanups
    /\ pc = "idle" => glob.inits = glob.cleanups

\* C9, as claimed: the request carries the whole collection name: the URL of
\* getCollection is baseUrl/api/v1/collections/collectionName, createCollection
\* posts {"name":"collectionName"} to baseUrl/api/v1/collections.
C9_NameReachesRequest ==
    /\ (LastOp = "get" /\ req.method # "none") =>
        req.url = args.baseUrl \o CollectionsPath \o <<"/">> \o args.collectionName
    /\ (LastOp = "create" /\ req.method # "none") =>
        /\ req.url = args.baseUrl \o CollectionsPath
        /\ req.body = PayloadHead \o args.collectionName \o PayloadTail

\* what holds in every state of main
C10_Safety ==
    /\ IsPrefix(callLog, <<"test", "create", "get">>)
    /\ ~heap.parsedEmpty
    /\ ~heap.readAfterFree
    /\ heap.parses <= 1
    /\ heap.memFrees <= 1
    /\ coll.frees <= 1
    /\ mpc = "done" =>
        /\ callLog = <<"test", "create", "get">>
        /\ heap.memFrees = 1
        /\ heap.parses = 1 => chunk.size > 0
        /\ coll.made = (heap.parses = 1)
        /\ coll.made =>
            /\ coll.frees = 1
            /\ coll.idFrees = (IF coll.val.id = Unset THEN 0 ELSE 1)
            /\ coll.nameFrees = (IF coll.val.name = Unset THEN 0 ELSE 1)

\* C10: main calls testConnection, createCollection and getCollection in this
\* order and always reaches its end; it parses only a response of size > 0,
\* releases every Collection it parsed, and frees the response buffer once,
\* after the last read of it.
C10_MainSequence == []C10_Safety /\ <>(mpc = "done")

\* main has ended after all three requests failed on the way: the truncated
\* response was parsed, the Collection released, the buffer freed
C10_Witness ==
    /\ mpc = "done"
    /\ res = "CURLE_OPERATION_TIMEDOUT"
    /\ chunk.size > 0
    /\ coll.made
    /\ coll.val = NoCollection
    /\ coll.frees = 1
    /\ heap.memFrees = 1

=============================================================================
